---- MODULE Spec2Model ----
(***************************************************************************)
(* A model of auto_deploy.py: the release pipeline main(), which opens a   *)
(* pull request (handle_pr_creation), resolves it (fetch_pr_details),      *)
(* mirrors check runs onto the local tagged commit                         *)
(* (sync_local_commit_with_remote_checks), reduces the check runs to one   *)
(* verdict (monitor_checks) and then approves, merges and verifies         *)
(* (approve_pull_request, is_pr_approved, pr_merge, verify_deployment).    *)
(*                                                                         *)
(* The hosting platform is the environment: its check suites and check     *)
(* runs evolve monotonically (absent -> queued -> in_progress ->           *)
(* completed) while the pipeline is in its two polling stages, and every   *)
(* host call may raise GithubException.                                    *)
(***************************************************************************)
EXTENDS Integers, FiniteSets, Sequences, TLC

VARIABLES
    skip_merge,              \* main(skip_merge)
    prod_env_file_path,      \* DeployInputs.prod_env_file_path
    pre_prod_env_file_path,  \* DeployInputs.pre_prod_env_file_path
    env_file_path,           \* handle_pr_creation: the selected path ("unset" before)
    target_env,              \* handle_pr_creation: "PROD" or "PRE-PROD" ("unset" before)
    pc,                      \* position of main()
    error,                   \* class of the exception that left main(), or "none"
    pulls_found,             \* fetch_pr_details in main: len(pulls) (-1 before)
    calls,                   \* host calls issued so far: records [op, token]
    branch_exists,           \* host: the branch named release_tag exists
    branch_probe,            \* history: how get_branch(new_branch) ended ("unset" before)
    suites,                  \* host: check suites of the PR head commit
    runs,                    \* host: check run name -> [status, conclusion]
    local_statuses,          \* host: commit statuses on the local tagged commit
    remote_check_suites,     \* sync: the suites fetched before its loop
    sync_iters,              \* sync: loop iterations that ended in a sleep
    sync_slept,              \* sync: time slept in the loop
    sync_result,             \* history: how sync returned ("unset" before)
    sync_host_error,         \* history: the host call of sync that raised ("none" if none)
    status_writes,           \* history: create_status calls of this sync, per check run
    seen_completed,          \* history: iterations of this sync that fetched the run completed
    checks_at_mirror,        \* history: the host's suites and runs at sync's latest fetch
    observed_check_names,    \* monitor_checks: baseline
    completed,               \* monitor_checks: completed of the last poll
    failed_checks,           \* monitor_checks: failed_checks of the last poll
    polls,                   \* monitor_checks: poll iterations executed
    monitor_slept,           \* monitor_checks: time slept in the poll loop
    seen_all_completed,      \* history: a poll snapshot showed every baseline name completed
    all_checks_passed,       \* main: result of monitor_checks ("unset" before)
    reviews,                 \* is_pr_approved: the review states the host returned
    merge_result,            \* pr_merge: what pull.merge did ("unset" before)
    attempts,                \* verify_deployment: requests issued
    failed_attempts,         \* history: requests that did not return 200
    verify_slept,            \* verify_deployment: time slept between attempts
    verified,                \* main: result of verify_deployment ("unset" before)
    file_content,            \* update_content: the text read from the base branch
    release_tag,             \* update_content: DeployInputs.release_tag
    updated_content,         \* update_content: the text it returns
    refs,                    \* upsert_branch called on its own: the host's branches
    create_calls,            \* history: create_git_ref calls per branch name, not
                             \*   counting a call the host failed for a new name
    upsert_calls,            \* history: calls of upsert_branch so far
    called,                  \* history: the names a call of upsert_branch returned for
    last_upsert,             \* history: what the latest call of upsert_branch did
    check_run,               \* process_check_run: the check run it is given
    pcr_result,              \* process_check_run: what it returns
    prev_state               \* history: the state the previous call returned

vars == <<skip_merge, prod_env_file_path, pre_prod_env_file_path, env_file_path,
          target_env, pc, error, pulls_found, calls,
          branch_exists, branch_probe, suites, runs, local_statuses,
          remote_check_suites, sync_iters, sync_slept, sync_result, sync_host_error,
          status_writes, seen_completed, checks_at_mirror,
          observed_check_names, completed, failed_checks, polls, monitor_slept,
          seen_all_completed, all_checks_passed, reviews, merge_result, attempts, failed_attempts,
          verify_slept, verified, file_content, release_tag, updated_content,
          refs, create_calls, upsert_calls, called, last_upsert,
          check_run, pcr_result, prev_state>>

inputVars   == <<skip_merge, prod_env_file_path, pre_prod_env_file_path>>
checkVars   == <<suites, runs>>
selectVars  == <<env_file_path, target_env>>
syncVars    == <<remote_check_suites, sync_iters, sync_slept, sync_result,
                 sync_host_error, status_writes, seen_completed, checks_at_mirror>>
monitorVars == <<observed_check_names, completed, failed_checks, polls, monitor_slept,
                 seen_all_completed>>
mergeVars   == <<reviews, merge_result>>
verifyVars  == <<attempts, failed_attempts, verify_slept, verified>>
contentVars == <<file_content, release_tag, updated_content>>
upsertVars  == <<refs, create_calls, upsert_calls, called, last_upsert>>
processVars == <<check_run, pcr_result, prev_state>>
\* the state of the functions that are also run on their own
unitVars    == <<contentVars, upsertVars, processVars>>

(***************************************************************************)
(* Bounds of the model.                                                    *)
(***************************************************************************)
MaxPolls     == 3   \* poll iterations of monitor_checks explored
MaxSyncIters == 2   \* loop iterations of the status mirror explored
MaxPulls     == 2   \* largest number of open pull requests the host returns
MaxTextLen   == 5   \* longest file text given to update_content
MaxUpsertCalls == 3 \* calls of upsert_branch explored when it is run on its own

(***************************************************************************)
(* Program constants.                                                      *)
(***************************************************************************)
max_attempts  == 10   \* verify_deployment(max_attempts=10)
wait_time     == 30   \* verify_deployment(wait_time=30)
MonitorSleep  == 60   \* monitor_checks: time.sleep(60)
SyncSleep     == 30   \* sync_local_commit_with_remote_checks: time.sleep(30)

(***************************************************************************)
(* The host's vocabulary.                                                  *)
(***************************************************************************)
CheckNames == {"build", "test"}
SuiteIds   == {"suite_a", "suite_b"}
SuiteOf(n) == IF n = "build" THEN "suite_a" ELSE "suite_b"

SuccessConclusions == {"success", "skipped", "neutral"}
FailureConclusions == {"failure", "timed_out", "action_required", "stale", "cancelled"}
\* "none" is Python's None; "startup_failure" stands for a conclusion the code does not list
Conclusions == SuccessConclusions \cup FailureConclusions \cup {"none", "startup_failure"}

ReviewStates == {"APPROVED", "CHANGES_REQUESTED", "COMMENTED"}
PathValues   == {"", "deploy/env.sh"}
NotFetched   == {"not_fetched"}   \* value of reviews before the host has answered

\* Texts are sequences of characters.  "E" "=" spell the marker
\* `export IMAGE_VERSION=`; release tags hold no line break.
Chars       == {"E", "=", "1", "\n"}
Marker      == <<"E", "=">>
Texts       == UNION {[1..k -> Chars] : k \in 0..MaxTextLen}
ReleaseTags == {<<>>, <<"2">>, <<"1", "2">>}

BranchNames == {"v1", "v2"}
\* "waiting" and "requested" are statuses process_check_run does not list
Statuses    == {"completed", "in_progress", "queued", "waiting", "requested"}
\* value of checks_at_mirror while sync has fetched nothing
NoSnapshot  == <<{}, [n \in CheckNames |-> [status |-> "absent", conclusion |-> "none"]]>>
NoUpsert    == [name |-> "none", repeat |-> FALSE, probe |-> "none",
                create_issued |-> FALSE, refs_changed |-> FALSE, raised |-> FALSE]
NoCheckRun  == [status |-> "none", conclusion |-> "none"]
NoResult    == [state |-> "none", all_check_runs_complete |-> FALSE]

Call(op, token) == [op |-> op, token |-> token]
Issued(op) == \E c \in calls : c.op = op

(***************************************************************************)
(* Initial state: the inputs are drawn, nothing has been called, and the   *)
(* PR head commit has no check suite yet.                                  *)
(***************************************************************************)
ContentIdle ==
    /\ file_content = <<>>
    /\ release_tag = <<>>
    /\ updated_content = <<>>

UpsertIdle ==
    /\ refs = {}
    /\ create_calls = [b \in BranchNames |-> 0]
    /\ upsert_calls = 0
    /\ called = {}
    /\ last_upsert = NoUpsert

ProcessIdle ==
    /\ check_run = NoCheckRun
    /\ pcr_result = NoResult
    /\ prev_state = "none"

Init ==
    /\ skip_merge \in BOOLEAN
    /\ prod_env_file_path \in PathValues
    /\ pre_prod_env_file_path \in PathValues
    /\ env_file_path = "unset"
    /\ target_env = "unset"
    /\ pc = "get_repo"
    /\ error = "none"
    /\ pulls_found = -1
    /\ calls = {}
    /\ branch_exists \in BOOLEAN
    /\ branch_probe = "unset"
    /\ suites = {}
    /\ runs = [n \in CheckNames |-> [status |-> "absent", conclusion |-> "none"]]
    /\ local_statuses = [n \in CheckNames |-> "none"]
    /\ remote_check_suites = {}
    /\ sync_iters = 0
    /\ sync_slept = 0
    /\ sync_result = "unset"
    /\ sync_host_error = "none"
    /\ status_writes = [n \in CheckNames |-> 0]
    /\ seen_completed = [n \in CheckNames |-> 0]
    /\ checks_at_mirror = NoSnapshot
    /\ observed_check_names = {}
    /\ completed = {}
    /\ failed_checks = {}
    /\ polls = 0
    /\ monitor_slept = 0
    /\ seen_all_completed = FALSE
    /\ all_checks_passed = "unset"
    /\ reviews = NotFetched
    /\ merge_result = "unset"
    /\ attempts = 0
    /\ failed_attempts = 0
    /\ verify_slept = 0
    /\ verified = "unset"
    /\ ContentIdle
    /\ UpsertIdle
    /\ ProcessIdle

\* main() is not running: a function of the file is run on its own, at stage p
PipelineIdle(p) ==
    /\ skip_merge = FALSE
    /\ prod_env_file_path = ""
    /\ pre_prod_env_file_path = ""
    /\ env_file_path = "unset"
    /\ target_env = "unset"
    /\ pc = p
    /\ error = "none"
    /\ pulls_found = -1
    /\ calls = {}
    /\ branch_exists = FALSE
    /\ branch_probe = "unset"
    /\ suites = {}
    /\ runs = [n \in CheckNames |-> [status |-> "absent", conclusion |-> "none"]]
    /\ local_statuses = [n \in CheckNames |-> "none"]
    /\ remote_check_suites = {}
    /\ sync_iters = 0
    /\ sync_slept = 0
    /\ sync_result = "unset"
    /\ sync_host_error = "none"
    /\ status_writes = [n \in CheckNames |-> 0]
    /\ seen_completed = [n \in CheckNames |-> 0]
    /\ checks_at_mirror = NoSnapshot
    /\ observed_check_names = {}
    /\ completed = {}
    /\ failed_checks = {}
    /\ polls = 0
    /\ monitor_slept = 0
    /\ seen_all_completed = FALSE
    /\ all_checks_passed = "unset"
    /\ reviews = NotFetched
    /\ merge_result = "unset"
    /\ attempts = 0
    /\ failed_attempts = 0
    /\ verify_slept = 0
    /\ verified = "unset"

\* an exception of class kind leaves main() (lines 577-579 re-raise it)
Raise(kind) ==
    /\ pc' = "error"
    /\ error' = kind

(***************************************************************************)
(* Stage 1-2: main() lines 519-525 and handle_pr_creation.                 *)
(***************************************************************************)
GetRepo ==
    /\ pc = "get_repo"
    /\ calls' = calls \cup {Call("get_repo", "token")}
    /\ \E ok \in BOOLEAN :
          IF ok THEN pc' = "handle_pr_creation" /\ error' = error
                ELSE Raise("GithubException")
    /\ UNCHANGED <<unitVars, inputVars, selectVars, pulls_found, branch_exists, branch_probe, checkVars, local_statuses,
                   syncVars, monitorVars, all_checks_passed, mergeVars, verifyVars>>

\* SelectEnvFile with the two paths exchanged
SelectEnvFile_swapped(skip, prod, pre_prod) ==
    IF skip THEN [path |-> pre_prod, target_env |-> "PROD"]
            ELSE [path |-> prod, target_env |-> "PRE-PROD"]

\* lines 334-339: the path and the label chosen by skip_merge
SelectEnvFile(skip, prod, pre_prod) ==
    IF skip THEN [path |-> prod, target_env |-> "PROD"]
            ELSE [path |-> pre_prod, target_env |-> "PRE-PROD"]

\* line 341: `if not env_file_path`
PathMissing(path) == path = ""

HandlePrCreation ==
    /\ pc = "handle_pr_creation"
    /\ LET sel == SelectEnvFile(skip_merge, prod_env_file_path, pre_prod_env_file_path)
       IN  /\ env_file_path' = sel.path
           /\ target_env' = sel.target_env
           /\ IF PathMissing(sel.path)
                 THEN Raise("ValueError")
                 ELSE pc' = "prepare_environment" /\ error' = error
    /\ UNCHANGED <<unitVars, inputVars, pulls_found, calls, branch_exists, branch_probe, checkVars, local_statuses,
                   syncVars, monitorVars, all_checks_passed, mergeVars, verifyVars>>

\* prepare_environment: get_branch(base_branch), then get_content
PrepareEnvironment ==
    /\ pc = "prepare_environment"
    /\ \E outcome \in {"ok", "get_branch_raises", "get_contents_raises"} :
          /\ calls' = calls \cup {Call("get_branch_base", "token")}
                            \cup (IF outcome = "get_branch_raises" THEN {}
                                  ELSE {Call("get_contents", "token")})
          /\ IF outcome = "ok" THEN pc' = "upsert_branch" /\ error' = error
                               ELSE Raise("GithubException")
    /\ UNCHANGED <<unitVars, inputVars, selectVars, pulls_found, branch_exists, branch_probe, checkVars, local_statuses,
                   syncVars, monitorVars, all_checks_passed, mergeVars, verifyVars>>

\* file_content.split("\n"): the lines of a text, at least one
RECURSIVE SplitLines(_)
SplitLines(text) ==
    IF \A i \in 1..Len(text) : text[i] # "\n" THEN <<text>>
    ELSE LET i == CHOOSE k \in 1..Len(text) :
                      /\ text[k] = "\n"
                      /\ \A j \in 1..(k - 1) : text[j] # "\n"
         IN  <<SubSeq(text, 1, i - 1)>> \o SplitLines(SubSeq(text, i + 1, Len(text)))

\* "\n".join(lines)
RECURSIVE JoinLines(_)
JoinLines(lines) ==
    IF lines = <<>> THEN <<>>
    ELSE IF Len(lines) = 1 THEN lines[1]
    ELSE lines[1] \o <<"\n">> \o JoinLines(Tail(lines))

\* line.startswith(prefix)
StartsWith(line, prefix) ==
    /\ Len(line) >= Len(prefix)
    /\ SubSeq(line, 1, Len(prefix)) = prefix

\* UpdateLine that rewrites every line holding the marker anywhere
UpdateLine_anywhere(line, tag) ==
    IF \E k \in 1..Len(line) : StartsWith(SubSeq(line, k, Len(line)), Marker)
    THEN Marker \o tag ELSE line

\* UpdateLine that appends the tag to a marker line and keeps its old value
UpdateLine_appends(line, tag) ==
    IF StartsWith(line, Marker) THEN line \o tag ELSE line

\* update_content lines 75-78: what is appended for one line
UpdateLine(line, tag) ==
    IF StartsWith(line, Marker) THEN Marker \o tag ELSE line

\* update_content lines 73-79
update_content(text, tag) ==
    LET lines == SplitLines(text)
    IN  JoinLines([i \in 1..Len(lines) |-> UpdateLine(lines[i], tag)])

\* upsert_branch lines 90-94: every GithubException of the probe leads to create_git_ref
UpsertCreates(probe) == probe # "found"

\* create_pull_request lines 305-307: update_content, then upsert_branch
UpsertBranch ==
    /\ pc = "upsert_branch"
    /\ \E probe \in {"found", "not_found", "other_error"}, created \in BOOLEAN :
          /\ probe = "found" => branch_exists
          /\ probe = "not_found" => ~branch_exists
          /\ branch_probe' = probe
          /\ IF UpsertCreates(probe)
                THEN /\ calls' = calls \cup {Call("get_branch", "token"),
                                             Call("create_git_ref", "token")}
                     /\ IF created /\ ~branch_exists
                           THEN /\ branch_exists' = TRUE
                                /\ pc' = "update_file" /\ error' = error
                           ELSE /\ branch_exists' = branch_exists
                                /\ Raise("GithubException")
                ELSE /\ created
                     /\ calls' = calls \cup {Call("get_branch", "token")}
                     /\ branch_exists' = branch_exists
                     /\ pc' = "update_file" /\ error' = error
    /\ UNCHANGED <<unitVars, inputVars, selectVars, pulls_found, checkVars, local_statuses,
                   syncVars, monitorVars, all_checks_passed, mergeVars, verifyVars>>

\* create_pull_request line 308
UpdateFile ==
    /\ pc = "update_file"
    /\ calls' = calls \cup {Call("update_file", "token")}
    /\ \E ok \in BOOLEAN :
          IF ok THEN pc' = "create_pull" /\ error' = error
                ELSE Raise("GithubException")
    /\ UNCHANGED <<unitVars, inputVars, selectVars, pulls_found, branch_exists, branch_probe, checkVars, local_statuses,
                   syncVars, monitorVars, all_checks_passed, mergeVars, verifyVars>>

\* create_pull_request lines 313-319
CreatePull ==
    /\ pc = "create_pull"
    /\ calls' = calls \cup {Call("create_pull", "token")}
    /\ \E ok \in BOOLEAN :
          IF ok THEN pc' = "fetch_pr_details" /\ error' = error
                ELSE Raise("GithubException")
    /\ UNCHANGED <<unitVars, inputVars, selectVars, pulls_found, branch_exists, branch_probe, checkVars, local_statuses,
                   syncVars, monitorVars, all_checks_passed, mergeVars, verifyVars>>

(***************************************************************************)
(* Stage 3-4: fetch_pr_details and the grace delay.                        *)
(***************************************************************************)
\* CardinalityOk that takes the first of several pull requests
CardinalityOk_nonempty(n) == n >= 1

\* line 109: `if len(pulls) != 1: raise ValueError`
CardinalityOk(n) == n = 1

FetchPrDetails ==
    /\ pc = "fetch_pr_details"
    /\ calls' = calls \cup {Call("get_pulls", "token")}
    /\ \E ok \in BOOLEAN, n \in 0..MaxPulls :
          IF ~ok THEN Raise("GithubException") /\ pulls_found' = pulls_found
          ELSE /\ pulls_found' = n
               /\ IF CardinalityOk(n) THEN pc' = "sync_get_tag" /\ error' = error
                                       ELSE Raise("ValueError")
    /\ UNCHANGED <<unitVars, inputVars, selectVars, branch_exists, branch_probe, checkVars, local_statuses,
                   syncVars, monitorVars, all_checks_passed, mergeVars, verifyVars>>

(***************************************************************************)
(* The host's check suites and check runs.  They change only while the     *)
(* pipeline is in the stages that read them (stages 5 and 6); a run's      *)
(* status never regresses and a suite or run never disappears.             *)
(***************************************************************************)
CheckStages == {"sync_get_tag", "sync_fetch_pr", "sync_get_suites", "sync_loop",
                "monitor_baseline", "monitor_poll"}

HostSuiteAppears ==
    /\ pc \in CheckStages
    /\ \E s \in SuiteIds \ suites : suites' = suites \cup {s}
    /\ UNCHANGED <<unitVars, inputVars, selectVars, pulls_found, pc, error, calls, branch_exists, branch_probe, runs,
                   local_statuses, syncVars, monitorVars, all_checks_passed,
                   mergeVars, verifyVars>>

HostRunQueued ==
    /\ pc \in CheckStages
    /\ \E n \in CheckNames :
          /\ runs[n].status = "absent"
          /\ SuiteOf(n) \in suites
          /\ runs' = [runs EXCEPT ![n].status = "queued"]
    /\ UNCHANGED <<unitVars, inputVars, selectVars, pulls_found, pc, error, calls, branch_exists, branch_probe, suites,
                   local_statuses, syncVars, monitorVars, all_checks_passed,
                   mergeVars, verifyVars>>

HostRunStarts ==
    /\ pc \in CheckStages
    /\ \E n \in CheckNames :
          /\ runs[n].status = "queued"
          /\ runs' = [runs EXCEPT ![n].status = "in_progress"]
    /\ UNCHANGED <<unitVars, inputVars, selectVars, pulls_found, pc, error, calls, branch_exists, branch_probe, suites,
                   local_statuses, syncVars, monitorVars, all_checks_passed,
                   mergeVars, verifyVars>>

HostRunCompletes ==
    /\ pc \in CheckStages
    /\ \E n \in CheckNames, c \in Conclusions :
          /\ runs[n].status \in {"queued", "in_progress"}
          /\ runs' = [runs EXCEPT ![n] = [status |-> "completed", conclusion |-> c]]
    /\ UNCHANGED <<unitVars, inputVars, selectVars, pulls_found, pc, error, calls, branch_exists, branch_probe, suites,
                   local_statuses, syncVars, monitorVars, all_checks_passed,
                   mergeVars, verifyVars>>

\* get_check_runs_status: the check runs of one suite
CheckRuns(s) == {n \in CheckNames : SuiteOf(n) = s /\ runs[n].status # "absent"}

\* the check runs of every suite of ss, as the nested loops visit them
CheckRunsOfSuites(ss) == UNION {CheckRuns(s) : s \in ss}

(***************************************************************************)
(* Stage 5: sync_local_commit_with_remote_checks.                          *)
(***************************************************************************)
\* ProcessCheckRun that leaves a cancelled run pending
ProcessCheckRun_cancelled_pending(status, conclusion, all_check_runs_complete) ==
    IF status = "completed"
    THEN [state |-> IF conclusion \in {"success", "skipped", "neutral"} THEN "success"
                    ELSE IF conclusion \in {"failure", "timed_out", "action_required",
                                            "stale"} THEN "failure"
                    ELSE "pending",
          all_check_runs_complete |-> all_check_runs_complete]
    ELSE [state |-> "pending", all_check_runs_complete |-> FALSE]

\* process_check_run: the mirrored state and the updated flag
ProcessCheckRun(status, conclusion, all_check_runs_complete) ==
    IF status = "completed"
    THEN [state |-> IF conclusion \in {"success", "skipped", "neutral"} THEN "success"
                    ELSE IF conclusion \in {"failure", "timed_out", "action_required",
                                            "stale", "cancelled"} THEN "failure"
                    ELSE "pending",
          all_check_runs_complete |-> all_check_runs_complete]
    ELSE [state |-> "pending", all_check_runs_complete |-> FALSE]

\* the flag after the loops of lines 455-462 have visited the runs of S
RECURSIVE SyncFlag(_, _)
SyncFlag(S, flag) ==
    IF S = {} THEN flag
    ELSE LET n == CHOOSE x \in S : TRUE
         IN  SyncFlag(S \ {n},
                      ProcessCheckRun(runs[n].status, runs[n].conclusion,
                                      flag).all_check_runs_complete)

\* SyncWritten that skips a run whose status was already mirrored
SyncWritten_once(S) == {n \in S : runs[n].status = "completed" /\ local_statuses[n] = "none"}

\* line 461: the runs whose state is written to the local commit
SyncWritten(S) == {n \in S : runs[n].status = "completed"}

\* lines 436-438: every GithubException of the tag lookup ends sync quietly
TagLookupReturns(outcome) == outcome \in {"tag_not_found", "tag_other_error"}

\* lines 430-438: get the local repository and the tag
SyncGetTag ==
    /\ pc = "sync_get_tag"
    /\ \E outcome \in {"ok", "get_repo_raises", "tag_not_found", "tag_other_error"} :
          /\ calls' = calls \cup {Call("get_local_repo", "token")}
                            \cup (IF outcome = "get_repo_raises" THEN {}
                                  ELSE {Call("get_git_ref", "token")})
          /\ sync_host_error' = (IF outcome = "get_repo_raises" THEN "get_repo"
                                 ELSE IF outcome = "tag_other_error" THEN "get_git_ref"
                                 ELSE sync_host_error)
          /\ IF outcome = "ok"
                THEN pc' = "sync_fetch_pr" /\ error' = error /\ sync_result' = sync_result
             ELSE IF outcome = "get_repo_raises"
                THEN Raise("GithubException") /\ sync_result' = "raised"
             ELSE IF TagLookupReturns(outcome)
                THEN pc' = "sync_return" /\ error' = error /\ sync_result' = "no_tag"
             ELSE Raise("GithubException") /\ sync_result' = "raised"
    /\ UNCHANGED <<unitVars, inputVars, selectVars, pulls_found, branch_exists, branch_probe, checkVars,
                   local_statuses, remote_check_suites, sync_iters, sync_slept,
                   status_writes, seen_completed, checks_at_mirror,
                   monitorVars, all_checks_passed, mergeVars, verifyVars>>

\* lines 440-441: the second fetch_pr_details
SyncFetchPr ==
    /\ pc = "sync_fetch_pr"
    /\ calls' = calls \cup {Call("get_pulls", "token")}
    /\ \E ok \in BOOLEAN, n \in 0..MaxPulls :
          IF ~ok THEN /\ Raise("GithubException")
                      /\ sync_result' = "raised"
                      /\ sync_host_error' = "get_pulls"
          ELSE IF CardinalityOk(n)
               THEN /\ pc' = "sync_get_suites" /\ error' = error
                    /\ UNCHANGED <<sync_result, sync_host_error>>
          ELSE /\ Raise("ValueError")
               /\ sync_result' = "raised"
               /\ sync_host_error' = sync_host_error
    /\ UNCHANGED <<unitVars, inputVars, selectVars, pulls_found, branch_exists, branch_probe, checkVars,
                   local_statuses, remote_check_suites, sync_iters, sync_slept,
                   status_writes, seen_completed, checks_at_mirror,
                   monitorVars, all_checks_passed, mergeVars, verifyVars>>

\* lines 445-450: the suites are fetched once, before the loop
SyncGetSuites ==
    /\ pc = "sync_get_suites"
    /\ calls' = calls \cup {Call("get_check_suites", "token")}
    /\ \E ok \in BOOLEAN :
          IF ~ok THEN /\ Raise("GithubException")
                      /\ sync_result' = "raised"
                      /\ sync_host_error' = "get_check_suites"
                      /\ UNCHANGED <<remote_check_suites, sync_iters, sync_slept>>
          ELSE /\ error' = error
               /\ sync_host_error' = sync_host_error
               /\ IF suites = {}
                     THEN /\ pc' = "sync_return"
                          /\ sync_result' = "no_suites"
                          /\ UNCHANGED <<remote_check_suites, sync_iters, sync_slept>>
                     ELSE /\ pc' = "sync_loop"
                          /\ sync_result' = sync_result
                          /\ remote_check_suites' = suites
                          /\ sync_iters' = 0
                          /\ sync_slept' = 0
    /\ UNCHANGED <<unitVars, inputVars, selectVars, pulls_found, branch_exists, branch_probe, checkVars,
                   local_statuses, status_writes, seen_completed, checks_at_mirror,
                   monitorVars, all_checks_passed, mergeVars, verifyVars>>

\* the check runs an iteration fetches completed: the suites it asks for are
\* those of remote_check_suites
FetchedCompleted(ss) == {n \in CheckRunsOfSuites(ss) : runs[n].status = "completed"}

\* lines 453-466: one iteration of the while loop (a host call may raise part-way)
SyncIteration ==
    /\ pc = "sync_loop"
    /\ sync_iters < MaxSyncIters
    /\ LET seen == CheckRunsOfSuites(remote_check_suites)
           Mirror(W) == [n \in CheckNames |->
                            IF n \in W
                            THEN ProcessCheckRun(runs[n].status, runs[n].conclusion,
                                                 TRUE).state
                            ELSE local_statuses[n]]
           Count(f, W) == [n \in CheckNames |-> IF n \in W THEN f[n] + 1 ELSE f[n]]
       IN  \/ /\ calls' = calls \cup {Call("get_check_runs", "token")}
                                \cup (IF SyncWritten(seen) = {} THEN {}
                                      ELSE {Call("create_status", "token")})
              /\ local_statuses' = Mirror(SyncWritten(seen))
              /\ status_writes' = Count(status_writes, SyncWritten(seen))
              /\ seen_completed' = Count(seen_completed,
                                         FetchedCompleted(remote_check_suites))
              /\ checks_at_mirror' = <<suites, runs>>
              /\ error' = error
              /\ sync_host_error' = sync_host_error
              /\ remote_check_suites' = remote_check_suites
              /\ IF SyncFlag(seen, TRUE)
                    THEN /\ pc' = "sync_return"
                         /\ sync_result' = "completed"
                         /\ sync_iters' = sync_iters
                         /\ sync_slept' = sync_slept
                    ELSE /\ pc' = pc
                         /\ sync_result' = sync_result
                         /\ sync_iters' = sync_iters + 1
                         /\ sync_slept' = sync_slept + SyncSleep
           \/ /\ \E W \in SUBSET SyncWritten(seen),
                       at \in {"get_check_runs", "create_status"} :
                    /\ at = "create_status" => W # SyncWritten(seen)
                    /\ local_statuses' = Mirror(W)
                    /\ status_writes' = Count(status_writes, W)
                    /\ sync_host_error' = at
                    /\ calls' = calls \cup {Call("get_check_runs", "token")}
                                      \cup (IF W = {} /\ at = "get_check_runs" THEN {}
                                            ELSE {Call("create_status", "token")})
              /\ Raise("GithubException")
              /\ sync_result' = "raised"
              /\ UNCHANGED <<remote_check_suites, sync_iters, sync_slept, seen_completed,
                             checks_at_mirror>>
    /\ UNCHANGED <<unitVars, inputVars, selectVars, pulls_found, branch_exists, branch_probe, checkVars,
                   monitorVars, all_checks_passed, mergeVars, verifyVars>>

\* sync has returned to main line 541: its locals are gone
SyncReturn ==
    /\ pc = "sync_return"
    /\ pc' = "monitor_baseline"
    /\ remote_check_suites' = {}
    /\ sync_iters' = 0
    /\ sync_slept' = 0
    /\ sync_result' = "unset"
    /\ sync_host_error' = "none"
    /\ status_writes' = [n \in CheckNames |-> 0]
    /\ seen_completed' = [n \in CheckNames |-> 0]
    /\ UNCHANGED <<unitVars, inputVars, selectVars, pulls_found, error, calls, branch_exists,
                   branch_probe, checkVars, local_statuses, checks_at_mirror,
                   monitorVars, all_checks_passed, mergeVars, verifyVars>>

(***************************************************************************)
(* Stage 6: monitor_checks.                                                *)
(***************************************************************************)
\* lines 478-484: the names of every check run of every suite
ObservedNames(ss) == CheckRunsOfSuites(ss)

\* CompletedNames without the test of line 497
CompletedNames_unscoped(ss, observed) ==
    {n \in CheckRunsOfSuites(ss) : runs[n].status = "completed"}

\* lines 497-501: the baseline runs a poll finds completed
CompletedNames(ss, observed) ==
    {n \in CheckRunsOfSuites(ss) : n \in observed /\ runs[n].status = "completed"}

\* line 502: the conclusion that puts a completed run into failed_checks
CountsAsFailed(conclusion) == conclusion = "failure"

\* lines 502-503
FailedNames(done) == {n \in done : CountsAsFailed(runs[n].conclusion)}

\* LoopDone that never ends the loop on an empty baseline
LoopDone_nonempty(done, observed) == done = observed /\ observed # {}

\* LoopDone that only asks that nothing outside the baseline completed
LoopDone_subset(done, observed) == done \subseteq observed

\* line 504: the loop's exit test
LoopDone(done, observed) == done = observed

\* lines 509-514: the value monitor_checks returns
Verdict(failed) == IF failed # {} THEN "False" ELSE "True"

\* a snapshot shows every baseline name as a completed check run
AllBaselineCompleted(observed) ==
    \A n \in observed : n \in CheckRunsOfSuites(suites) /\ runs[n].status = "completed"

\* lines 475-486: baseline capture
MonitorBaseline ==
    /\ pc = "monitor_baseline"
    /\ calls' = calls \cup {Call("get_check_suites", "token")}
                      \cup (IF suites = {} THEN {} ELSE {Call("get_check_runs", "token")})
    /\ \E ok \in BOOLEAN :
          IF ~ok THEN Raise("GithubException") /\ UNCHANGED monitorVars
          ELSE /\ pc' = "monitor_poll" /\ error' = error
               /\ observed_check_names' = ObservedNames(suites)
               /\ UNCHANGED <<completed, failed_checks, polls, monitor_slept,
                              seen_all_completed>>
    /\ UNCHANGED <<unitVars, inputVars, selectVars, pulls_found, branch_exists, branch_probe, checkVars, local_statuses,
                   syncVars, all_checks_passed, mergeVars, verifyVars>>

\* lines 488-514: one iteration of the poll loop, and the return when it breaks
MonitorPoll ==
    /\ pc = "monitor_poll"
    /\ polls < MaxPolls
    /\ calls' = calls \cup {Call("get_check_suites", "token")}
                      \cup (IF suites = {} THEN {} ELSE {Call("get_check_runs", "token")})
    /\ \E ok \in BOOLEAN :
          IF ~ok THEN /\ Raise("GithubException")
                      /\ UNCHANGED <<monitorVars, all_checks_passed>>
          ELSE LET done   == CompletedNames(suites, observed_check_names)
                   failed == FailedNames(done)
               IN  /\ completed' = done
                   /\ failed_checks' = failed
                   /\ polls' = polls + 1
                   /\ seen_all_completed' =
                         (seen_all_completed \/ AllBaselineCompleted(observed_check_names))
                   /\ error' = error
                   /\ observed_check_names' = observed_check_names
                   /\ IF LoopDone(done, observed_check_names)
                         THEN /\ pc' = "main_branch"
                              /\ all_checks_passed' = Verdict(failed)
                              /\ monitor_slept' = monitor_slept
                         ELSE /\ pc' = pc
                              /\ all_checks_passed' = all_checks_passed
                              /\ monitor_slept' = monitor_slept + MonitorSleep
    /\ UNCHANGED <<unitVars, inputVars, selectVars, pulls_found, branch_exists, branch_probe, checkVars, local_statuses,
                   syncVars, mergeVars, verifyVars>>

(***************************************************************************)
(* Stage 7: main() lines 546-573.                                          *)
(***************************************************************************)
\* BranchAfterChecks that tests skip_merge only
BranchAfterChecks_no_verdict(skip, passed) ==
    IF skip THEN "skip" ELSE "proceed"

\* BranchAfterChecks that tests the verdict before skip_merge
BranchAfterChecks_verdict_first(skip, passed) ==
    IF passed = "True" THEN "proceed"
    ELSE IF skip THEN "skip"
    ELSE "fail"

\* BranchAfterChecks for which a failure verdict is fatal with skip_merge too
BranchAfterChecks_failure_fatal(skip, passed) ==
    IF passed = "False" THEN "fail"
    ELSE IF skip THEN "skip"
    ELSE "proceed"

\* lines 546, 548, 571: what main does with the verdict
BranchAfterChecks(skip, passed) ==
    IF skip THEN "skip"
    ELSE IF passed = "True" THEN "proceed"
    ELSE "fail"

\* monitor_checks has returned: its locals are gone
MainBranch ==
    /\ pc = "main_branch"
    /\ LET b == BranchAfterChecks(skip_merge, all_checks_passed)
       IN  IF b = "skip" THEN pc' = "done" /\ error' = error
           ELSE IF b = "proceed" THEN pc' = "approve" /\ error' = error
           ELSE Raise("RuntimeError")
    /\ observed_check_names' = {}
    /\ completed' = {}
    /\ failed_checks' = {}
    /\ polls' = 0
    /\ monitor_slept' = 0
    /\ seen_all_completed' = FALSE
    /\ checks_at_mirror' = NoSnapshot
    /\ UNCHANGED <<unitVars, inputVars, selectVars, pulls_found, calls, branch_exists, branch_probe, checkVars, local_statuses,
                   remote_check_suites, sync_iters, sync_slept, sync_result,
                   sync_host_error, status_writes, seen_completed,
                   all_checks_passed, mergeVars, verifyVars>>

\* lines 551-552 and approve_pull_request: the review is created with the bot token
ApprovePullRequest ==
    /\ pc = "approve"
    /\ calls' = calls \cup {Call("create_review", "bot_token")}
    /\ \E ok \in BOOLEAN :
          IF ok THEN pc' = "is_pr_approved" /\ error' = error
                ELSE Raise("GithubException")
    /\ UNCHANGED <<unitVars, inputVars, selectVars, pulls_found, branch_exists, branch_probe, checkVars, local_statuses,
                   syncVars, monitorVars, all_checks_passed, mergeVars, verifyVars>>

\* Approved that accepts any review
Approved_any_review(rs) == rs # {}

\* is_pr_approved line 180
Approved(rs) == \E r \in rs : r = "APPROVED"

\* lines 554, 564-566: the reviews are fetched again and one must be APPROVED
IsPrApproved ==
    /\ pc = "is_pr_approved"
    /\ calls' = calls \cup {Call("get_reviews", "token")}
    /\ \E ok \in BOOLEAN, rs \in SUBSET ReviewStates :
          IF ~ok THEN Raise("GithubException") /\ reviews' = reviews
          ELSE /\ reviews' = rs
               /\ IF Approved(rs) THEN pc' = "pr_merge" /\ error' = error
                                  ELSE Raise("RuntimeError")
    /\ UNCHANGED <<unitVars, inputVars, selectVars, pulls_found, branch_exists, branch_probe, checkVars,
                   local_statuses, syncVars, monitorVars, all_checks_passed,
                   merge_result, verifyVars>>

\* MergeEnds that only prints the unmerged result
MergeEnds_unmerged_returns(result) ==
    IF result \in {"merged", "not_merged"} THEN "returns" ELSE "GithubException"

\* pr_merge lines 208-217: how pr_merge ends for each result of pull.merge
MergeEnds(result) ==
    IF result = "merged" THEN "returns"
    ELSE IF result = "not_merged" THEN "RuntimeError"
    ELSE "GithubException"

\* line 556 and pr_merge
PrMerge ==
    /\ pc = "pr_merge"
    /\ calls' = calls \cup {Call("merge", "token")}
    /\ \E result \in {"merged", "not_merged", "raises"} :
          /\ merge_result' = result
          /\ IF MergeEnds(result) = "returns"
                THEN pc' = "verify_deployment" /\ error' = error
                ELSE Raise(MergeEnds(result))
    /\ UNCHANGED <<unitVars, inputVars, selectVars, pulls_found, branch_exists, branch_probe, checkVars, local_statuses,
                   syncVars, monitorVars, all_checks_passed, reviews, verifyVars>>

(***************************************************************************)
(* verify_deployment and main() lines 559-563, 575.                        *)
(***************************************************************************)
\* ShouldSleep that also sleeps after the last attempt
ShouldSleep_always(attempt, max) == attempt < max

\* line 243: sleep after the failed attempt with index attempt
ShouldSleep(attempt, max) == attempt < max - 1

\* line 233: range(max_attempts) has an index after attempt
MoreAttempts(attempt, max) == attempt + 1 < max

\* lines 233-250: one iteration of the for loop; attempts is the loop index
VerifyAttempt ==
    /\ pc = "verify_deployment"
    /\ calls' = calls \cup {Call("requests_get", "none")}
    /\ attempts' = attempts + 1
    /\ \E outcome \in {"200", "non_200", "RequestException"} :
          IF outcome = "200"
          THEN /\ verified' = "True"
               /\ pc' = "verify_return"
               /\ UNCHANGED <<failed_attempts, verify_slept>>
          ELSE /\ failed_attempts' = failed_attempts + 1
               /\ verify_slept' = IF ShouldSleep(attempts, max_attempts)
                                  THEN verify_slept + wait_time ELSE verify_slept
               /\ IF MoreAttempts(attempts, max_attempts)
                     THEN pc' = pc /\ verified' = verified
                     ELSE pc' = "verify_return" /\ verified' = "False"
    /\ UNCHANGED <<unitVars, inputVars, selectVars, pulls_found, error, branch_exists, branch_probe, checkVars, local_statuses,
                   syncVars, monitorVars, all_checks_passed, mergeVars>>

\* VerifyEscalates that only prints the failure
VerifyEscalates_never(result) == FALSE

\* line 559: main escalates a False result
VerifyEscalates(result) == result # "True"

VerifyReturn ==
    /\ pc = "verify_return"
    /\ IF VerifyEscalates(verified) THEN Raise("RuntimeError")
                                    ELSE pc' = "done" /\ error' = error
    /\ UNCHANGED <<unitVars, inputVars, selectVars, pulls_found, calls, branch_exists, branch_probe, checkVars, local_statuses,
                   syncVars, monitorVars, all_checks_passed, mergeVars, verifyVars>>

Next ==
    \/ GetRepo
    \/ HandlePrCreation
    \/ PrepareEnvironment
    \/ UpsertBranch
    \/ UpdateFile
    \/ CreatePull
    \/ FetchPrDetails
    \/ HostSuiteAppears
    \/ HostRunQueued
    \/ HostRunStarts
    \/ HostRunCompletes
    \/ SyncGetTag
    \/ SyncFetchPr
    \/ SyncGetSuites
    \/ SyncIteration
    \/ SyncReturn
    \/ MonitorBaseline
    \/ MonitorPoll
    \/ MainBranch
    \/ ApprovePullRequest
    \/ IsPrApproved
    \/ PrMerge
    \/ VerifyAttempt
    \/ VerifyReturn

Spec == Init /\ [][Next]_vars

(***************************************************************************)
(* update_content run on its own, on every text of at most MaxTextLen      *)
(* characters and every release tag of ReleaseTags.                        *)
(***************************************************************************)
UpdateContent ==
    /\ pc = "update_content"
    /\ updated_content' = update_content(file_content, release_tag)
    /\ pc' = "content_done"
    /\ UNCHANGED <<file_content, release_tag, upsertVars, processVars, inputVars,
                   selectVars, error, pulls_found, calls, branch_exists, branch_probe,
                   checkVars, local_statuses, syncVars, monitorVars,
                   all_checks_passed, mergeVars, verifyVars>>

InitContent ==
    /\ PipelineIdle("update_content")
    /\ file_content \in Texts
    /\ release_tag \in ReleaseTags
    /\ updated_content = <<>>
    /\ UpsertIdle
    /\ ProcessIdle

NextContent == UpdateContent

SpecContent == InitContent /\ [][NextContent]_vars

(***************************************************************************)
(* upsert_branch run on its own: up to MaxUpsertCalls calls with branch    *)
(* names of BranchNames, on a host that may already hold some of them.     *)
(* The probe get_branch finds the branch, reports it missing, or raises    *)
(* another GithubException; create_git_ref succeeds only for a new name.   *)
(***************************************************************************)
UpsertCall ==
    /\ pc = "upsert_branch_unit"
    /\ upsert_calls < MaxUpsertCalls
    /\ \E new_branch \in BranchNames, probe \in {"found", "not_found", "other_error"},
          created \in BOOLEAN :
          /\ probe = "found" => new_branch \in refs
          /\ probe = "not_found" => new_branch \notin refs
          /\ UpsertCreates(probe) \/ created
          /\ LET adds == UpsertCreates(probe) /\ created /\ new_branch \notin refs
             IN  /\ refs' = IF adds THEN refs \cup {new_branch} ELSE refs
                 /\ create_calls' =
                       IF UpsertCreates(probe) /\ (adds \/ new_branch \in refs)
                       THEN [create_calls EXCEPT ![new_branch] = @ + 1]
                       ELSE create_calls
                 /\ called' = IF UpsertCreates(probe) /\ ~adds
                              THEN called ELSE called \cup {new_branch}
                 /\ last_upsert' = [name |-> new_branch,
                                    repeat |-> new_branch \in called,
                                    probe |-> probe,
                                    create_issued |-> UpsertCreates(probe),
                                    refs_changed |-> adds,
                                    raised |-> UpsertCreates(probe) /\ ~adds]
    /\ upsert_calls' = upsert_calls + 1
    /\ UNCHANGED <<contentVars, processVars, inputVars, selectVars, pc, error,
                   pulls_found, calls, branch_exists, branch_probe, checkVars,
                   local_statuses, syncVars, monitorVars, all_checks_passed,
                   mergeVars, verifyVars>>

InitUpsert ==
    /\ PipelineIdle("upsert_branch_unit")
    /\ refs \in SUBSET BranchNames
    /\ create_calls = [b \in BranchNames |-> 0]
    /\ upsert_calls = 0
    /\ called = {}
    /\ last_upsert = NoUpsert
    /\ ContentIdle
    /\ ProcessIdle

NextUpsert == UpsertCall

SpecUpsert == InitUpsert /\ [][NextUpsert]_vars

(***************************************************************************)
(* process_check_run run on its own: one check run is observed again and   *)
(* again, with any status and conclusion, and classified each time.        *)
(***************************************************************************)
ProcessObservation ==
    /\ pc = "process_check_run"
    /\ \E status \in Statuses, conclusion \in Conclusions,
          all_check_runs_complete \in BOOLEAN :
          /\ check_run' = [status |-> status, conclusion |-> conclusion]
          /\ pcr_result' = ProcessCheckRun(status, conclusion, all_check_runs_complete)
    /\ prev_state' = pcr_result.state
    /\ UNCHANGED <<contentVars, upsertVars, inputVars, selectVars, pc, error,
                   pulls_found, calls, branch_exists, branch_probe, checkVars,
                   local_statuses, syncVars, monitorVars, all_checks_passed,
                   mergeVars, verifyVars>>

InitProcess ==
    /\ PipelineIdle("process_check_run")
    /\ ProcessIdle
    /\ ContentIdle
    /\ UpsertIdle

NextProcess == ProcessObservation

SpecProcess == InitProcess /\ [][NextProcess]_vars

(***************************************************************************)
(* Properties.                                                             *)
(***************************************************************************)
CreationOps == {"get_branch_base", "get_contents", "get_branch", "create_git_ref",
                "update_file", "create_pull"}
CheckOps    == {"get_check_suites", "get_check_runs"}
MirrorOps   == {"get_local_repo", "get_git_ref", "create_status"}
MergeOps    == {"create_review", "get_reviews", "merge", "requests_get"}

NoneIssued(ops) == \A c \in calls : c.op \notin ops

\* C1: when monitor_checks has returned, its verdict is failure if and only if a
\* baseline check run completed with a conclusion of the failure class (failure,
\* timed_out, action_required, stale, cancelled); otherwise it is success.
C1_VerdictIffFailureClass ==
    pc = "main_branch" =>
        (all_checks_passed = "False"
            <=> \E n \in observed_check_names :
                   /\ runs[n].status = "completed"
                   /\ runs[n].conclusion \in FailureConclusions)

\* C2: without skip_merge, once monitor_checks has returned failure the pipeline
\* can only end with its RuntimeError, and no approve, merge or health request is
\* ever issued.
C2_FailedChecksStopPipeline ==
    (~skip_merge /\ all_checks_passed = "False") =>
        /\ pc \in {"main_branch", "error"}
        /\ pc = "error" => error = "RuntimeError"
        /\ NoneIssued(MergeOps)

C2_Witness ==
    /\ ~skip_merge
    /\ all_checks_passed = "False"
    /\ pc = "error"

\* C3: the poll loop of monitor_checks is still running only while no poll has
\* shown every baseline name completed, having slept 60 after each poll so far;
\* it returns at the first poll that shows them all completed, with 60 slept
\* after each earlier poll and none after the last.
C3_LoopEndsAtFirstCompletePoll ==
    /\ pc = "monitor_poll" =>
          /\ ~seen_all_completed
          /\ monitor_slept = MonitorSleep * polls
    /\ pc = "main_branch" =>
          /\ polls >= 1
          /\ seen_all_completed
          /\ AllBaselineCompleted(observed_check_names)
          /\ monitor_slept = MonitorSleep * (polls - 1)

C3_Witness ==
    /\ pc = "main_branch"
    /\ observed_check_names = {"build", "test"}
    /\ polls = 3
    /\ monitor_slept = 2 * MonitorSleep
    /\ all_checks_passed = "True"

\* C4: with skip_merge no approve, review fetch, merge or health request is ever
\* issued, and after monitor_checks has returned the pipeline is finished.
C4_SkipMergeStopsAfterChecks ==
    skip_merge =>
        /\ NoneIssued(MergeOps)
        /\ pc \notin {"approve", "is_pr_approved", "pr_merge", "verify_deployment",
                      "verify_return"}
        /\ all_checks_passed # "unset" => pc \in {"main_branch", "done"}

C4_Witness ==
    /\ skip_merge
    /\ pc = "done"
    /\ all_checks_passed = "True"

\* C5: a merge is issued only after an approval issued with the bot token and a
\* later review fetch that returned an APPROVED review; when the fetch returns no
\* APPROVED review the pipeline ends with its RuntimeError and issues no merge and
\* no health request.
C5_MergeOnlyAfterApproval ==
    /\ Issued("get_reviews") => Call("create_review", "bot_token") \in calls
    /\ Issued("merge") =>
          /\ Call("create_review", "bot_token") \in calls
          /\ "APPROVED" \in reviews
    /\ (reviews # NotFetched /\ "APPROVED" \notin reviews) =>
          /\ pc = "error"
          /\ error = "RuntimeError"
          /\ ~Issued("merge")
          /\ ~Issued("requests_get")

C5_Witness ==
    /\ reviews = {"COMMENTED", "CHANGES_REQUESTED"}
    /\ pc = "error"

\* C6: when pull.merge returns with merged false, the pipeline ends with a
\* RuntimeError and verify_deployment is never run.
C6_UnmergedIsFatal ==
    merge_result = "not_merged" =>
        /\ pc = "error"
        /\ error = "RuntimeError"
        /\ ~Issued("requests_get")
        /\ attempts = 0
        /\ verified = "unset"

C6_Witness ==
    /\ merge_result = "not_merged"
    /\ pc = "error"

\* C7: without skip_merge the pipeline finishes normally only if
\* verify_deployment returned true, and a false result after a successful merge
\* ends it with a RuntimeError.
C7_VerificationGatesSuccess ==
    /\ (~skip_merge /\ pc = "done") => verified = "True"
    /\ verified = "False" =>
          /\ merge_result = "merged"
          /\ pc \in {"verify_return", "error"}
          /\ pc = "error" => error = "RuntimeError"

C7_Witness ==
    /\ verified = "False"
    /\ merge_result = "merged"
    /\ pc = "error"

\* C8: verify_deployment returns true exactly when an attempt k <= 10 returns 200,
\* all attempts before it having failed, after k requests and k-1 sleeps; it
\* returns false, without raising, after exactly 10 failed requests and 9 sleeps
\* of wait_time.
C8_VerifyBoundedRetry ==
    /\ pc = "verify_deployment" =>
          /\ attempts < max_attempts
          /\ failed_attempts = attempts
          /\ verify_slept = wait_time * attempts
          /\ verified = "unset"
    /\ verified = "True" =>
          /\ attempts >= 1 /\ attempts <= max_attempts
          /\ failed_attempts = attempts - 1
          /\ verify_slept = wait_time * (attempts - 1)
    /\ verified = "False" =>
          /\ attempts = max_attempts
          /\ failed_attempts = max_attempts
          /\ verify_slept = wait_time * (max_attempts - 1)
    /\ pc = "verify_return" => verified \in {"True", "False"}

C8_Witness ==
    /\ pc = "verify_return"
    /\ verified = "False"
    /\ attempts = 10
    /\ verify_slept = 270

\* C9: when main's fetch_pr_details finds a number of open pull requests other
\* than 1, the pipeline ends with a ValueError and nothing of the later stages has
\* been or is called: no status mirror call, no check poll, no approve, merge or
\* health request.
C9_CardinalityErrorStopsPipeline ==
    (pulls_found # -1 /\ pulls_found # 1) =>
        /\ pc = "error"
        /\ error = "ValueError"
        /\ NoneIssued(MirrorOps \cup CheckOps \cup MergeOps)
        /\ \A n \in CheckNames : local_statuses[n] = "none"
        /\ all_checks_passed = "unset"

C9_Witness ==
    /\ pulls_found = 2
    /\ pc = "error"
    /\ error = "ValueError"

\* C10: skip_merge selects the PROD path and label, its absence the PRE-PROD path
\* and label; when the selected path is empty the pipeline ends at
\* handle_pr_creation with a ValueError and no file read, branch lookup, branch
\* creation, file update or pull request creation is issued, whatever the other
\* path is.
C10_MissingPathFailsFast ==
    /\ target_env # "unset" =>
          /\ target_env = (IF skip_merge THEN "PROD" ELSE "PRE-PROD")
          /\ env_file_path = (IF skip_merge THEN prod_env_file_path
                                            ELSE pre_prod_env_file_path)
    /\ (IF skip_merge THEN prod_env_file_path ELSE pre_prod_env_file_path) = "" =>
          /\ NoneIssued(CreationOps)
          /\ pc \in {"get_repo", "handle_pr_creation", "error"}
          /\ (pc = "error" /\ target_env # "unset") => error = "ValueError"

C10_Witness ==
    /\ skip_merge
    /\ prod_env_file_path = ""
    /\ pre_prod_env_file_path # ""
    /\ target_env = "PROD"
    /\ pc = "error"
    /\ error = "ValueError"

\* C14: in every iteration of the mirror's loop that runs to its end, each check
\* run fetched as completed is written exactly once and no other run is written:
\* a run fetched completed in n iterations has been written n times.
C14_OneWritePerCompletedRunPerIteration ==
    pc \in {"sync_loop", "sync_return"} =>
        \A n \in CheckNames : status_writes[n] = seen_completed[n]

C14_Witness ==
    /\ pc = "sync_return"
    /\ sync_result = "completed"
    /\ status_writes["build"] = 2
    /\ status_writes["test"] = 1

\* C16: check runs whose names are not in the baseline do not affect
\* monitor_checks: the loop is still running only while no poll has shown every
\* baseline name completed, and what it returns is decided by the baseline runs
\* alone, whatever the other runs are.
C16_NonBaselineRunsIgnored ==
    /\ pc = "monitor_poll" => ~seen_all_completed
    /\ pc = "main_branch" =>
          /\ completed = observed_check_names
          /\ failed_checks \subseteq observed_check_names
          /\ all_checks_passed = "False"
                <=> \E n \in observed_check_names : runs[n].conclusion = "failure"

C16_Witness ==
    /\ pc = "main_branch"
    /\ observed_check_names = {"build"}
    /\ runs["test"].status = "completed"
    /\ runs["test"].conclusion = "failure"
    /\ all_checks_passed = "True"

\* C17: the mirror's loop exits only in an iteration in which every check run
\* then visible on the head commit, in whatever suite, is completed; while it
\* runs it has slept 30 after every iteration.
C17_MirrorExitsWhenAllVisibleCompleted ==
    /\ (pc = "sync_return" /\ sync_result = "completed") =>
          \A n \in CheckRunsOfSuites(suites) : runs[n].status = "completed"
    /\ pc = "sync_loop" => sync_slept = SyncSleep * sync_iters

\* C18: when get_branch(new_branch) fails with a host error other than "not
\* found", the pipeline ends with that GithubException and no create_git_ref,
\* update_file or create_pull is issued.
C18_ProbeErrorPropagates ==
    branch_probe = "other_error" =>
        /\ pc = "error"
        /\ error = "GithubException"
        /\ NoneIssued({"create_git_ref", "update_file", "create_pull"})

\* C19: the mirror returns quietly, without a status write, when the tag is
\* absent or the head commit has no suite, and these are the only cases in which
\* a problem inside the mirror does not end the pipeline: a host error inside it
\* always does.
C19_OnlyTwoSoftReturns ==
    /\ (pc = "sync_return" /\ sync_result \in {"no_tag", "no_suites"}) =>
          /\ error = "none"
          /\ ~Issued("create_status")
          /\ \A n \in CheckNames : local_statuses[n] = "none" /\ status_writes[n] = 0
    /\ pc = "sync_return" => sync_host_error = "none"

\* C20: a host error raised by any call inside the mirror ends the pipeline with
\* that GithubException: monitor_checks is not started and no approve, merge or
\* health request is issued.
C20_MirrorHostErrorAborts ==
    sync_host_error # "none" =>
        /\ pc = "error"
        /\ error = "GithubException"
        /\ all_checks_passed = "unset"
        /\ observed_check_names = {} /\ polls = 0
        /\ NoneIssued(MergeOps)

\* C11: running upsert_branch on its own, a call whose branch name an earlier
\* call has returned for finds the branch (nothing is raised), leaves the
\* host's branches unchanged and issues no create_git_ref; and over any
\* sequence of calls create_git_ref is issued at most once per branch name
\* (a call the host failed for a new name, which may be retried, not counted).
C11_SecondCallIsNoOp ==
    /\ last_upsert.repeat =>
          /\ last_upsert.probe = "found"
          /\ ~last_upsert.create_issued
          /\ ~last_upsert.refs_changed
          /\ ~last_upsert.raised
    /\ \A b \in BranchNames : create_calls[b] <= 1

\* a line that begins with the marker, read off the characters themselves
IsMarkerLine(line) == Len(line) >= 2 /\ line[1] = "E" /\ line[2] = "="

MarkerLines(lines) == {i \in 1..Len(lines) : IsMarkerLine(lines[i])}

TableState(status, conclusion) ==
    CASE status = "completed" /\ conclusion \in SuccessConclusions -> "success"
      [] status = "completed" /\ conclusion \in FailureConclusions -> "failure"
      [] OTHER -> "pending"

\* C15: whatever state the previous call of process_check_run returned, the
\* state it returns for a check run is the one the table gives for the run's
\* status and conclusion: success for completed with success, skipped or
\* neutral; failure for completed with failure, timed_out, action_required,
\* stale or cancelled; pending for completed with no or another conclusion, for
\* in_progress, for queued and for any other status.
C15_ClassificationTable ==
    (pc = "process_check_run" /\ check_run # NoCheckRun) =>
        \A earlier \in {"none", "success", "failure", "pending"} :
            prev_state = earlier =>
                pcr_result.state = TableState(check_run.status, check_run.conclusion)

\* a run classified success before is now seen cancelled and classified failure
C15_Witness ==
    /\ pc = "process_check_run"
    /\ prev_state = "success"
    /\ check_run = [status |-> "completed", conclusion |-> "cancelled"]
    /\ pcr_result.state = "failure"

\* C21: without skip_merge, when monitor_checks has returned and the host's
\* suites and check runs are still as sync last fetched them, a failure status
\* mirrored for a check run of the baseline means main raises: it does not go
\* on to the approval, so no create_review and no merge is issued.
C21_MirroredFailureBlocksMerge ==
    [][(/\ pc = "main_branch"
        /\ ~skip_merge
        /\ checks_at_mirror = <<suites, runs>>
        /\ \E n \in observed_check_names : local_statuses[n] = "failure")
          => (pc' = "error" /\ NoneIssued(MergeOps)')]_vars

\* C22: when baseline capture found no check run, the first poll of
\* monitor_checks that the host answers ends the loop: it returns True after
\* one poll and no sleep, whatever check runs the host shows by then, and
\* without skip_merge main goes on to approve_pull_request (and from there to
\* the merge, once the approval is seen).
C22_EmptyBaselineIsSuccess ==
    [][/\ (pc = "monitor_poll" /\ observed_check_names = {} /\ polls' # polls)
             => (/\ pc' = "main_branch"
                 /\ polls' = 1
                 /\ monitor_slept' = 0
                 /\ all_checks_passed' = "True")
       /\ (pc = "main_branch" /\ observed_check_names = {} /\ ~skip_merge)
             => pc' = "approve"]_vars

\* monitor_checks returned True on an empty baseline although the host by then
\* showed a check run that failed
C22_Witness ==
    /\ pc = "main_branch"
    /\ ~skip_merge
    /\ observed_check_names = {}
    /\ polls = 1
    /\ "build" \in CheckRunsOfSuites(suites)
    /\ runs["build"].status = "completed"
    /\ runs["build"].conclusion = "failure"
    /\ all_checks_passed = "True"

\* C23: with skip_merge, main finishes only after monitor_checks has returned
\* a verdict, and once there is a verdict, True or False, main is at its branch
\* or finished, without error; an error after a False verdict occurs only
\* without skip_merge.
C23_SkipMergeEndsNormally ==
    /\ (skip_merge /\ pc = "done") => all_checks_passed \in {"True", "False"}
    /\ (skip_merge /\ all_checks_passed \in {"True", "False"}) =>
          (pc \in {"main_branch", "done"} /\ error = "none")
    /\ (all_checks_passed = "False" /\ pc = "error") =>
          (~skip_merge /\ error = "RuntimeError")

\* main finished normally with skip_merge after a False verdict
C23_Witness ==
    /\ skip_merge
    /\ pc = "done"
    /\ error = "none"
    /\ all_checks_passed = "False"

====
